---- MODULE Spec2Model ----
(***************************************************************************)
(* Model of the Snowflake "revoke session" action (src/src/script.mjs).    *)
(*                                                                         *)
(* JavaScript values are tagged records.  Strings the code inspects        *)
(* (username, tokens, addresses, delays) are sequences of one-character    *)
(* strings; strings the code only copies (response bodies, status texts,   *)
(* statement handles, message fragments) are plain TLA+ strings.           *)
(***************************************************************************)
EXTENDS Integers, Sequences, FiniteSets, TLC

\* ------------------------------------------------------------------ bounds
\* Number of invocation slots of the model (Spec uses the first one).
NumInvocations == 2

Invocations == 1..NumInvocations

\* ------------------------------------------------------- JavaScript values
Undef == [t |-> "undefined"]
Null == [t |-> "null"]
Bool(b) == [t |-> "boolean", b |-> b]
Num(n) == [t |-> "number", n |-> n]
Str(s) == [t |-> "string", s |-> s]

\* JavaScript truthiness, as used by `!x`, `x || y` and `if (x)`.
Truthy(v) ==
  CASE v.t = "undefined" -> FALSE
    [] v.t = "null" -> FALSE
    [] v.t = "boolean" -> v.b
    [] v.t = "number" -> v.n # 0
    [] v.t = "string" -> v.s # <<>>
    [] OTHER -> TRUE

\* `a || b`
Or(a, b) == IF Truthy(a) THEN a ELSE b

\* ------------------------------------------------------------------ strings
IsWs(c) == c \in {" ", "\t"}

IsDigit(c) == c \in {"0", "1", "2", "3", "4", "5", "6", "7", "8", "9"}

DigitVal(c) ==
  CASE c = "0" -> 0 [] c = "1" -> 1 [] c = "2" -> 2 [] c = "3" -> 3
    [] c = "4" -> 4 [] c = "5" -> 5 [] c = "6" -> 6 [] c = "7" -> 7
    [] c = "8" -> 8 [] c = "9" -> 9

\* String.prototype.toLowerCase on the letters the code's patterns mention.
ToLower(c) ==
  CASE c = "B" -> "b" [] c = "E" -> "e" [] c = "A" -> "a" [] c = "R" -> "r"
    [] c = "M" -> "m" [] c = "S" -> "s" [] c = "H" -> "h"
    [] OTHER -> c

LowerStr(s) == [k \in 1..Len(s) |-> ToLower(s[k])]

RECURSIVE TrimStart(_)
TrimStart(s) == IF s # <<>> /\ IsWs(Head(s)) THEN TrimStart(Tail(s)) ELSE s

RECURSIVE TrimEnd(_)
TrimEnd(s) ==
  IF s # <<>> /\ IsWs(s[Len(s)]) THEN TrimEnd(SubSeq(s, 1, Len(s) - 1)) ELSE s

\* String.prototype.trim
Trim(s) == TrimEnd(TrimStart(s))

StartsWith(s, p) == Len(s) >= Len(p) /\ SubSeq(s, 1, Len(p)) = p

EndsWith(s, p) ==
  Len(s) >= Len(p) /\ SubSeq(s, Len(s) - Len(p) + 1, Len(s)) = p

\* Number of occurrences of character c in s.
RECURSIVE CountChar(_, _)
CountChar(s, c) ==
  IF s = <<>> THEN 0
  ELSE (IF Head(s) = c THEN 1 ELSE 0) + CountChar(Tail(s), c)

BearerPrefix == <<"B", "e", "a", "r", "e", "r", " ">>

BasicPrefix == <<"B", "a", "s", "i", "c", " ">>

\* Buffer.from(s).toString('base64'), abstracted to a character-wise
\* encoding into the base64 alphabet (which has no '.', ':' or blank).
Base64Char(c) ==
  CASE c = "." -> "L" [] c = ":" -> "6" [] c = " " -> "g" [] c = "/" -> "v"
    [] OTHER -> c

Base64(s) == [k \in 1..Len(s) |-> Base64Char(s[k])] \o <<"=">>

\* ------------------------------------------------------------------ errors
\* An Error object: its class, its `retryable` property ("true", "false",
\* or "undefined" when the property does not exist) and its message as the
\* sequence of the template's fragments.
RetryableError(message) ==
  [cls |-> "RetryableError", retryable |-> "true", message |-> message]

FatalError(message) ==
  [cls |-> "FatalError", retryable |-> "false", message |-> message]

PlainError(cls, message) ==
  [cls |-> cls, retryable |-> "undefined", message |-> message]

Return(v) == [kind |-> "return", value |-> v]

Throw(e) == [kind |-> "throw", error |-> e]

\* --------------------------------------------------------- validateInputs
MsgInvalidUsername == <<"Invalid or missing username parameter">>

\* validateInputs without the whitespace check.
validateInputsNoTrim(p) ==
  IF ~Truthy(p.username) \/ p.username.t # "string"
  THEN Throw(FatalError(MsgInvalidUsername))
  ELSE Return(Undef)

validateInputs(p) ==
  IF \/ ~Truthy(p.username)
     \/ p.username.t # "string"
     \/ Trim(p.username.s) = <<>>
  THEN Throw(FatalError(MsgInvalidUsername))
  ELSE Return(Undef)

\* ----------------------------------------------------------- parseDuration
\* A number of milliseconds as the exact fraction num/den (den a power of 10).
Ms(num, den) == [num |-> num, den |-> den]

DefaultDelayMs == 100

RECURSIVE NDigits(_)
NDigits(s) == IF s # <<>> /\ IsDigit(Head(s)) THEN 1 + NDigits(Tail(s)) ELSE 0

RECURSIVE DigitsVal(_)
DigitsVal(s) ==
  IF s = <<>> THEN 0
  ELSE DigitsVal(SubSeq(s, 1, Len(s) - 1)) * 10 + DigitVal(s[Len(s)])

RECURSIVE Pow10(_)
Pow10(k) == IF k = 0 THEN 1 ELSE 10 * Pow10(k - 1)

DurationUnits == {<<"m", "s">>, <<"s">>, <<"m">>, <<"h">>}

\* durationStr.match(/^(\d+(?:\.\d+)?)(ms|s|m|h)?$/i): the groups, or no match.
DurationMatch(s) ==
  LET i == NDigits(s)
      rest1 == SubSeq(s, i + 1, Len(s))
      f == IF rest1 # <<>> /\ rest1[1] = "." THEN NDigits(Tail(rest1)) ELSE 0
      rest2 == IF f > 0 THEN SubSeq(rest1, f + 2, Len(rest1)) ELSE rest1
  IN IF i >= 1 /\ (rest2 = <<>> \/ LowerStr(rest2) \in DurationUnits)
     THEN [matched |-> TRUE,
           int |-> SubSeq(s, 1, i),
           frac |-> IF f > 0 THEN SubSeq(rest1, 2, f + 1) ELSE <<>>,
           unit |-> rest2]
     ELSE [matched |-> FALSE]

UnitFactor(unit) ==
  CASE unit = <<"m", "s">> -> 1
    [] unit = <<"s">> -> 1000
    [] unit = <<"m">> -> 60 * 1000
    [] unit = <<"h">> -> 60 * 60 * 1000
    [] OTHER -> 1

\* parseDuration rejecting a string that is no duration.
parseDurationStrict(durationStr) ==
  IF ~Truthy(durationStr) THEN Return(Ms(DefaultDelayMs, 1))
  ELSE IF durationStr.t # "string"
  THEN Throw(PlainError("TypeError", <<"durationStr.match is not a function">>))
  ELSE LET m == DurationMatch(durationStr.s)
       IN IF ~m.matched
          THEN Throw(FatalError(<<"Invalid duration format: ">> \o durationStr.s))
          ELSE LET den == Pow10(Len(m.frac))
                   value == DigitsVal(m.int) * den + DigitsVal(m.frac)
                   unit == IF m.unit = <<>> THEN <<"m", "s">> ELSE LowerStr(m.unit)
               IN Return(Ms(value * UnitFactor(unit), den))

parseDuration(durationStr) ==
  IF ~Truthy(durationStr) THEN Return(Ms(DefaultDelayMs, 1))
  ELSE IF durationStr.t # "string"
  THEN Throw(PlainError("TypeError", <<"durationStr.match is not a function">>))
  ELSE LET m == DurationMatch(durationStr.s)
       IN IF ~m.matched THEN Return(Ms(DefaultDelayMs, 1))
          ELSE LET den == Pow10(Len(m.frac))
                   value == DigitsVal(m.int) * den + DigitsVal(m.frac)
                   unit == IF m.unit = <<>> THEN <<"m", "s">> ELSE LowerStr(m.unit)
               IN Return(Ms(value * UnitFactor(unit), den))

\* ------------------------------------------------------ determineTokenType
\* authToken.split('.').length
SplitLength(s, c) == CountChar(s, c) + 1

\* determineTokenType taking three or more segments for a signed token.
determineTokenTypeAtLeast(authToken) ==
  IF authToken # <<>> /\ SplitLength(authToken, ".") >= 3
  THEN "KEYPAIR_JWT"
  ELSE "OAUTH"

determineTokenType(authToken) ==
  IF authToken # <<>> /\ SplitLength(authToken, ".") = 3
  THEN "KEYPAIR_JWT"
  ELSE "OAUTH"

\* authHeader.replace(/^Bearer\s+/i, '')
StripBearer(authHeader) ==
  IF /\ Len(authHeader) >= 7
     /\ LowerStr(SubSeq(authHeader, 1, 6)) = <<"b", "e", "a", "r", "e", "r">>
     /\ IsWs(authHeader[7])
  THEN TrimStart(SubSeq(authHeader, 7, Len(authHeader)))
  ELSE authHeader

\* -------------------------------------------------------- executeStatement
StatementsPath == "/api/v2/statements"

\* The headers object executeStatement passes to fetch.
StatementHeaders(authHeader) ==
  LET tokenType == determineTokenType(StripBearer(authHeader))
  IN ("Authorization" :> authHeader)
       @@ ("Content-Type" :> "application/json")
       @@ ("Accept" :> "*/*")
       @@ ("X-Snowflake-Authorization-Token-Type" :> tokenType)

\* The fetch call of executeStatement: url, method, headers, JSON body.
StatementRequest(statement, authHeader, baseUrl) ==
  [target |-> "statements",
   url |-> [base |-> baseUrl, path |-> StatementsPath],
   method |-> "POST",
   headers |-> StatementHeaders(authHeader),
   body |-> [statement |-> statement]]

\* response.ok
ResponseOk(status) == status >= 200 /\ status <= 299

\* StatementOutcome with the server-error test written `> 500`.
StatementOutcomeAbove500(response) ==
  IF response.net = "reject"
  THEN Throw(PlainError("TypeError", <<"fetch failed">>))
  ELSE IF ~ResponseOk(response.status)
  THEN IF response.status = 429
       THEN Throw(RetryableError(<<"Snowflake API rate limit exceeded">>))
       ELSE IF response.status = 401
       THEN Throw(FatalError(<<"Invalid or expired authentication token">>))
       ELSE IF response.status = 403
       THEN Throw(FatalError(<<"Insufficient permissions to execute statement">>))
       ELSE IF response.status = 422
       THEN Throw(FatalError(<<"Invalid SQL statement: ", response.text>>))
       ELSE IF response.status > 500
       THEN Throw(RetryableError(
              <<"Snowflake API server error: ", ToString(response.status)>>))
       ELSE Throw(FatalError(
              <<"Failed to execute statement: ", ToString(response.status), " ",
                response.statusText, " - ", response.text>>))
  ELSE IF response.json.json = "invalid"
  THEN Throw(PlainError("SyntaxError", <<"Unexpected token in JSON">>))
  ELSE Return(response.json)

\* What executeStatement does with the answer of fetch.
StatementOutcome(response) ==
  IF response.net = "reject"
  THEN Throw(PlainError("TypeError", <<"fetch failed">>))
  ELSE IF ~ResponseOk(response.status)
  THEN IF response.status = 429
       THEN Throw(RetryableError(<<"Snowflake API rate limit exceeded">>))
       ELSE IF response.status = 401
       THEN Throw(FatalError(<<"Invalid or expired authentication token">>))
       ELSE IF response.status = 403
       THEN Throw(FatalError(<<"Insufficient permissions to execute statement">>))
       ELSE IF response.status = 422
       THEN Throw(FatalError(<<"Invalid SQL statement: ", response.text>>))
       ELSE IF response.status >= 500
       THEN Throw(RetryableError(
              <<"Snowflake API server error: ", ToString(response.status)>>))
       ELSE Throw(FatalError(
              <<"Failed to execute statement: ", ToString(response.status), " ",
                response.statusText, " - ", response.text>>))
  ELSE IF response.json.json = "invalid"
  THEN Throw(PlainError("SyntaxError", <<"Unexpected token in JSON">>))
  ELSE Return(response.json)

\* ------------------------------------------------ getClientCredentialsToken
\* The fetch call of getClientCredentialsToken (form-encoded POST).
TokenRequest(config) ==
  LET inParams == config.authStyle = Str(<<"I", "n", "P", "a", "r", "a", "m", "s">>)
      form == [grant_type |-> "client_credentials",
               scope |-> IF Truthy(config.scope) THEN config.scope ELSE Undef,
               audience |-> IF Truthy(config.audience) THEN config.audience ELSE Undef,
               client_id |-> IF inParams THEN config.clientId ELSE Undef,
               client_secret |-> IF inParams THEN config.clientSecret ELSE Undef]
      headers ==
        IF inParams
        THEN ("Content-Type" :> "application/x-www-form-urlencoded")
               @@ ("Accept" :> "application/json")
        ELSE ("Content-Type" :> "application/x-www-form-urlencoded")
               @@ ("Accept" :> "application/json")
               @@ ("Authorization" :>
                     BasicPrefix \o Base64(config.clientId.s \o <<":">> \o config.clientSecret.s))
  IN [target |-> "token",
      url |-> config.tokenUrl,
      method |-> "POST",
      headers |-> headers,
      body |-> form]

\* What getClientCredentialsToken does with the answer of fetch.
TokenOutcome(response) ==
  IF response.net = "reject"
  THEN Throw(PlainError("TypeError", <<"fetch failed">>))
  ELSE IF ~ResponseOk(response.status)
  THEN Throw(PlainError("Error",
         <<"OAuth2 token request failed: ", ToString(response.status), " ",
           response.statusText, " - ", response.text>>))
  ELSE IF response.json.json = "invalid"
  THEN Throw(PlainError("SyntaxError", <<"Unexpected token in JSON">>))
  ELSE IF response.json.json = "null"
  THEN Throw(PlainError("TypeError", <<"Cannot read properties of null">>))
  ELSE IF ~Truthy(response.json.access_token)
  THEN Throw(PlainError("Error", <<"No access_token in OAuth2 response">>))
  ELSE Return(response.json.access_token)

\* --------------------------------------------------- getAuthorizationHeader
\* token.startsWith('Bearer ') ? token : `Bearer ${token}`
AsBearer(token) == IF StartsWith(token, BearerPrefix) THEN token ELSE BearerPrefix \o token

\* `Basic ${credentials}` of method 2.
BasicHeader(secrets) ==
  BasicPrefix \o Base64(secrets.BASIC_USERNAME.s \o <<":">> \o secrets.BASIC_PASSWORD.s)

\* Method 4 up to the fetch of getClientCredentialsToken.
ClientCredentials(env, secrets) ==
  IF \/ ~Truthy(env.OAUTH2_CLIENT_CREDENTIALS_TOKEN_URL)
     \/ ~Truthy(env.OAUTH2_CLIENT_CREDENTIALS_CLIENT_ID)
  THEN Throw(PlainError("Error",
         <<"OAuth2 Client Credentials flow requires TOKEN_URL and CLIENT_ID in env">>))
  ELSE [kind |-> "fetch",
        request |-> TokenRequest(
          [tokenUrl |-> env.OAUTH2_CLIENT_CREDENTIALS_TOKEN_URL,
           clientId |-> env.OAUTH2_CLIENT_CREDENTIALS_CLIENT_ID,
           clientSecret |-> secrets.OAUTH2_CLIENT_CREDENTIALS_CLIENT_SECRET,
           scope |-> env.OAUTH2_CLIENT_CREDENTIALS_SCOPE,
           audience |-> env.OAUTH2_CLIENT_CREDENTIALS_AUDIENCE,
           authStyle |-> env.OAUTH2_CLIENT_CREDENTIALS_AUTH_STYLE])]

NoAuthenticationConfigured ==
  PlainError("Error", <<"No authentication configured">>)

\* getAuthorizationHeader with the basic-auth test placed before the bearer test.
getAuthorizationHeaderBasicFirst(ctx) ==
  LET env == ctx.environment
      secrets == ctx.secrets
  IN IF Truthy(secrets.BASIC_PASSWORD) /\ Truthy(secrets.BASIC_USERNAME)
     THEN Return(BasicHeader(secrets))
     ELSE IF Truthy(secrets.BEARER_AUTH_TOKEN)
     THEN Return(AsBearer(secrets.BEARER_AUTH_TOKEN.s))
     ELSE IF Truthy(secrets.OAUTH2_AUTHORIZATION_CODE_ACCESS_TOKEN)
     THEN Return(AsBearer(secrets.OAUTH2_AUTHORIZATION_CODE_ACCESS_TOKEN.s))
     ELSE IF Truthy(secrets.OAUTH2_CLIENT_CREDENTIALS_CLIENT_SECRET)
     THEN ClientCredentials(env, secrets)
     ELSE Throw(NoAuthenticationConfigured)

\* getAuthorizationHeader without the final throw: `Bearer undefined`.
getAuthorizationHeaderNoThrow(ctx) ==
  LET env == ctx.environment
      secrets == ctx.secrets
  IN IF Truthy(secrets.BEARER_AUTH_TOKEN)
     THEN Return(AsBearer(secrets.BEARER_AUTH_TOKEN.s))
     ELSE IF Truthy(secrets.BASIC_PASSWORD) /\ Truthy(secrets.BASIC_USERNAME)
     THEN Return(BasicHeader(secrets))
     ELSE IF Truthy(secrets.OAUTH2_AUTHORIZATION_CODE_ACCESS_TOKEN)
     THEN Return(AsBearer(secrets.OAUTH2_AUTHORIZATION_CODE_ACCESS_TOKEN.s))
     ELSE IF Truthy(secrets.OAUTH2_CLIENT_CREDENTIALS_CLIENT_SECRET)
     THEN ClientCredentials(env, secrets)
     ELSE Return(BearerPrefix \o <<"u", "n", "d", "e", "f", "i", "n", "e", "d">>)

\* getAuthorizationHeader up to its first await: the header, an error, or
\* the token request of the client-credentials flow.
getAuthorizationHeader(ctx) ==
  LET env == ctx.environment
      secrets == ctx.secrets
  IN IF Truthy(secrets.BEARER_AUTH_TOKEN)
     THEN Return(AsBearer(secrets.BEARER_AUTH_TOKEN.s))
     ELSE IF Truthy(secrets.BASIC_PASSWORD) /\ Truthy(secrets.BASIC_USERNAME)
     THEN Return(BasicHeader(secrets))
     ELSE IF Truthy(secrets.OAUTH2_AUTHORIZATION_CODE_ACCESS_TOKEN)
     THEN Return(AsBearer(secrets.OAUTH2_AUTHORIZATION_CODE_ACCESS_TOKEN.s))
     ELSE IF Truthy(secrets.OAUTH2_CLIENT_CREDENTIALS_CLIENT_SECRET)
     THEN ClientCredentials(env, secrets)
     ELSE Throw(NoAuthenticationConfigured)

\* ---------------------------------------------------------------- getBaseUrl
getBaseUrl(p, ctx) ==
  LET address == Or(p.address, ctx.environment.ADDRESS)
  IN IF ~Truthy(address)
     THEN Throw(PlainError("Error", <<"No URL specified">>))
     ELSE Return(IF EndsWith(address.s, <<"/">>)
                 THEN SubSeq(address.s, 1, Len(address.s) - 1)
                 ELSE address.s)

\* ------------------------------------------------------------ invoke (catch)
\* The catch block of invoke: classified errors pass, the rest are wrapped.
CatchClassify(error) ==
  IF error.cls = "RetryableError" \/ error.cls = "FatalError"
  THEN error
  ELSE FatalError(<<"Unexpected error: ">> \o error.message)

\* ------------------------------------------------------------------- state
VARIABLES
  pc,             \* per invocation: the point of invoke it has reached
  params,         \* per invocation: the params argument of invoke
  context,        \* per invocation: the context argument of invoke
  authHeader,     \* per invocation: invoke's local authHeader
  baseUrl,        \* per invocation: invoke's local baseUrl
  delayMs,        \* per invocation: invoke's local delayMs
  disableResult,  \* per invocation: invoke's local disableResult
  enableResult,   \* per invocation: invoke's local enableResult
  outcome,        \* per invocation: pending, the returned result or the error raised
  requests,       \* every fetch call made so far, in order
  calls,          \* every executeStatement call that has completed, in order
  account,        \* the warehouse: per user name, "enabled" or "disabled"
  timers,         \* per invocation: the setTimeout timer: "none", "armed", "fired"
  network,        \* which answers the warehouse and the token endpoint can give
  haltParams,     \* the params of the last call of halt
  haltResult,     \* what the last call of halt returned
  errorParams,    \* the params of the last call of the error handler
  errorResult     \* how the last call of the error handler ended

vars ==
  <<pc, params, context, authHeader, baseUrl, delayMs, disableResult,
    enableResult, outcome, requests, calls, account, timers, network,
    haltParams, haltResult, errorParams, errorResult>>

handlers == <<haltParams, haltResult, errorParams, errorResult>>

locals == <<authHeader, baseUrl, delayMs, disableResult, enableResult>>

inputs == <<params, context, network>>

Pending == [kind |-> "pending"]

NoJson == [json |-> "none"]

\* new Date().toISOString(): an opaque timestamp.
Now == Str(<<"T">>)

\* ------------------------------------------------------------------ inputs
UsernameInputs ==
  {Undef, Null, Num(0), Num(7), Str(<<>>), Str(<<" ", "\t">>),
   Str(<<"a">>), Str(<<" ", "b">>)}

Users == {v.s : v \in {w \in UsernameInputs : w.t = "string"}}

DelayInputs == {Undef, Str(<<"5">>), Str(<<"2", "s">>), Str(<<"x">>)}

AddressInputs == {Undef, Str(<<"v">>)}

Params(username, delay, address) ==
  [username |-> username, delay |-> delay, address |-> address]

ParamsInputs ==
  {Params(u, d, a) : u \in UsernameInputs, d \in DelayInputs, a \in AddressInputs}

Environment(address, tokenUrl, clientId, scope, authStyle) ==
  [ADDRESS |-> address,
   OAUTH2_CLIENT_CREDENTIALS_TOKEN_URL |-> tokenUrl,
   OAUTH2_CLIENT_CREDENTIALS_CLIENT_ID |-> clientId,
   OAUTH2_CLIENT_CREDENTIALS_SCOPE |-> scope,
   OAUTH2_CLIENT_CREDENTIALS_AUDIENCE |-> scope,
   OAUTH2_CLIENT_CREDENTIALS_AUTH_STYLE |-> authStyle]

Secrets(bearer, basicUser, basicPass, accessToken, clientSecret) ==
  [BEARER_AUTH_TOKEN |-> bearer,
   BASIC_USERNAME |-> basicUser,
   BASIC_PASSWORD |-> basicPass,
   OAUTH2_AUTHORIZATION_CODE_ACCESS_TOKEN |-> accessToken,
   OAUTH2_CLIENT_CREDENTIALS_CLIENT_SECRET |-> clientSecret]

Context(environment, secrets) ==
  [t |-> "object", environment |-> environment, secrets |-> secrets]

NoSecrets == Secrets(Undef, Undef, Undef, Undef, Undef)

JwtToken == <<"h", ".", "p", ".", "s">>

InParams == Str(<<"I", "n", "P", "a", "r", "a", "m", "s">>)

\* The credential sets Spec draws from: none, each method alone, bearer
\* together with basic, and a client-credentials set without its token URL.
SecretsInputs ==
  {NoSecrets,
   Secrets(Str(JwtToken), Undef, Undef, Undef, Undef),
   Secrets(Str(BearerPrefix \o <<"k">>), Str(<<"u">>), Str(<<"p">>), Undef, Undef),
   Secrets(Undef, Str(<<"u">>), Str(<<"p">>), Undef, Undef),
   Secrets(Undef, Undef, Undef, Str(<<"c">>), Undef),
   Secrets(Undef, Undef, Undef, Undef, Str(<<"z">>))}

ContextInputs ==
  {Undef}
    \cup {Context(Environment(a, Str(<<"w">>), Str(<<"i">>), Undef, Undef), s) :
            a \in {Undef, Str(<<"u", "/">>)}, s \in SecretsInputs}
    \cup {Context(Environment(Str(<<"u">>), Undef, Str(<<"i">>), Undef, Undef),
                  Secrets(Undef, Undef, Undef, Undef, Str(<<"z">>)))}

\* ------------------------------------------------ the network's answers
StatusText(status) ==
  CASE status = 200 -> "OK"
    [] status = 299 -> ""
    [] status = 300 -> "Multiple Choices"
    [] status = 400 -> "Bad Request"
    [] status = 401 -> "Unauthorized"
    [] status = 403 -> "Forbidden"
    [] status = 404 -> "Not Found"
    [] status = 422 -> "Unprocessable Entity"
    [] status = 429 -> "Too Many Requests"
    [] status = 500 -> "Internal Server Error"
    [] status = 503 -> "Service Unavailable"
    [] OTHER -> ""

OkStatuses == {200, 299}

FailStatuses == {300, 400, 401, 403, 404, 422, 429, 499, 500, 503}

JsonObject(statementHandle, accessToken) ==
  [json |-> "object", statementHandle |-> statementHandle, access_token |-> accessToken]

JsonInvalid == [json |-> "invalid"]

JsonNull == [json |-> "null"]

Response(status, text, json) ==
  [net |-> "ok", status |-> status, statusText |-> StatusText(status),
   text |-> text, json |-> json]

Rejected == [net |-> "reject"]

StatementBodies ==
  {JsonInvalid, JsonNull, JsonObject(Undef, Undef),
   JsonObject(Str(<<"h", "1">>), Undef), JsonObject(Str(<<"h", "2">>), Undef)}

TokenBodies ==
  {JsonInvalid, JsonObject(Undef, Undef), JsonObject(Undef, Str(<<"n">>))}

StatementResponses ==
  {Rejected}
    \cup {Response(s, "boom", JsonInvalid) : s \in FailStatuses}
    \cup {Response(s, "", j) : s \in OkStatuses, j \in StatementBodies}

TokenResponses ==
  {Rejected}
    \cup {Response(s, "denied", JsonInvalid) : s \in {401, 429, 500}}
    \cup {Response(200, "", j) : j \in TokenBodies}

\* The answers a behaviour's network can give, by the name in `network`.
StatementAnswers(name) ==
  IF name = "any" THEN StatementResponses
  ELSE IF name = "three"
  THEN {Response(500, "boom", JsonInvalid),
        Response(200, "", JsonInvalid),
        Response(200, "", JsonObject(Str(<<"h", "1">>), Undef))}
  ELSE {Rejected, Response(500, "boom", JsonInvalid), Response(404, "boom", JsonInvalid),
        Response(200, "", JsonObject(Str(<<"h", "1">>), Undef))}

TokenAnswers(name) ==
  IF name = "any" THEN TokenResponses
  ELSE {Response(401, "denied", JsonInvalid),
        Response(200, "", JsonObject(Undef, Undef)),
        Response(200, "", JsonObject(Undef, Str(<<"n">>)))}

\* ------------------------------------------------------------------ invoke
DisableStatement(username) ==
  [sql |-> "ALTER USER ${username} SET DISABLED = TRUE", username |-> username]

EnableStatement(username) ==
  [sql |-> "ALTER USER ${username} SET DISABLED = FALSE", username |-> username]

NoStatement == [sql |-> "", username |-> <<>>]

\* resolveJSONPathTemplates on params that hold no template: the params.
resolvedParams(i) == params[i]

\* An error raised inside invoke's try block: it leaves through the catch.
Raise(i, error) ==
  /\ pc' = [pc EXCEPT ![i] = "done"]
  /\ outcome' = [outcome EXCEPT ![i] = Throw(CatchClassify(error))]

\* An error raised before the try block is entered: it leaves as it is.
RaiseOutsideTry(i, error) ==
  /\ pc' = [pc EXCEPT ![i] = "done"]
  /\ outcome' = [outcome EXCEPT ![i] = Throw(error)]

Goto(i, label) ==
  /\ pc' = [pc EXCEPT ![i] = label]
  /\ UNCHANGED outcome

\* The warehouse applies a statement it answers with a 2xx status.
Apply(statement, response) ==
  IF response.net = "ok" /\ ResponseOk(response.status)
  THEN [account EXCEPT ![statement.username] =
          IF statement = DisableStatement(statement.username)
          THEN "disabled" ELSE "enabled"]
  ELSE account

\* invoke, before the try: context.data is read and the templates resolved.
ResolveTemplates(i) ==
  /\ pc[i] = "start"
  /\ IF context[i].t = "undefined"
     THEN RaiseOutsideTry(i, PlainError("TypeError",
            <<"Cannot read properties of undefined (reading 'data')">>))
     ELSE Goto(i, "validate")
  /\ UNCHANGED <<inputs, locals, requests, calls, account, timers, handlers>>

Validate(i) ==
  /\ pc[i] = "validate"
  /\ LET r == validateInputs(resolvedParams(i))
     IN IF r.kind = "throw" THEN Raise(i, r.error) ELSE Goto(i, "auth")
  /\ UNCHANGED <<inputs, locals, requests, calls, account, timers, handlers>>

\* await getAuthorizationHeader(context), up to the token request.
ResolveAuth(i) ==
  /\ pc[i] = "auth"
  /\ LET r == getAuthorizationHeader(context[i])
     IN CASE r.kind = "throw" ->
               /\ Raise(i, r.error)
               /\ UNCHANGED <<authHeader, requests>>
          [] r.kind = "return" ->
               /\ Goto(i, "baseUrl")
               /\ authHeader' = [authHeader EXCEPT ![i] = r.value]
               /\ UNCHANGED requests
          [] r.kind = "fetch" ->
               /\ Goto(i, "token")
               /\ requests' = Append(requests, [inv |-> i, req |-> r.request])
               /\ UNCHANGED authHeader
  /\ UNCHANGED <<inputs, baseUrl, delayMs, disableResult, enableResult,
                 calls, account, timers, handlers>>

\* The token endpoint answers: getClientCredentialsToken finishes.
TokenResponse(i) ==
  /\ pc[i] = "token"
  /\ \E response \in TokenAnswers(network.token) :
       LET r == TokenOutcome(response)
       IN /\ calls' = Append(calls, [inv |-> i, target |-> "token",
                                     statement |-> NoStatement,
                                     response |-> response, outcome |-> r])
          /\ IF r.kind = "throw"
             THEN Raise(i, r.error) /\ UNCHANGED authHeader
             ELSE /\ Goto(i, "baseUrl")
                  /\ authHeader' = [authHeader EXCEPT ![i] = BearerPrefix \o r.value.s]
  /\ UNCHANGED <<inputs, baseUrl, delayMs, disableResult, enableResult,
                 requests, account, timers, handlers>>

ResolveBaseUrl(i) ==
  /\ pc[i] = "baseUrl"
  /\ LET r == getBaseUrl(resolvedParams(i), context[i])
     IN IF r.kind = "throw"
        THEN Raise(i, r.error) /\ UNCHANGED baseUrl
        ELSE Goto(i, "delay") /\ baseUrl' = [baseUrl EXCEPT ![i] = r.value]
  /\ UNCHANGED <<inputs, authHeader, delayMs, disableResult, enableResult,
                 requests, calls, account, timers, handlers>>

ParseDelay(i) ==
  /\ pc[i] = "delay"
  /\ LET r == parseDuration(resolvedParams(i).delay)
     IN IF r.kind = "throw"
        THEN Raise(i, r.error) /\ UNCHANGED delayMs
        ELSE Goto(i, "sendDisable") /\ delayMs' = [delayMs EXCEPT ![i] = r.value]
  /\ UNCHANGED <<inputs, authHeader, baseUrl, disableResult, enableResult,
                 requests, calls, account, timers, handlers>>

\* executeStatement(disableStatement, ...) up to its fetch.
SendDisable(i) ==
  /\ pc[i] = "sendDisable"
  /\ requests' = Append(requests,
       [inv |-> i,
        req |-> StatementRequest(DisableStatement(resolvedParams(i).username.s),
                                 authHeader[i], baseUrl[i])])
  /\ Goto(i, "disable")
  /\ UNCHANGED <<inputs, locals, calls, account, timers, handlers>>

\* DisableResponse with the failure of the disable call swallowed.
DisableResponseSwallow(i) ==
  /\ pc[i] = "disable"
  /\ \E response \in StatementAnswers(network.statements) :
       LET statement == DisableStatement(resolvedParams(i).username.s)
           r == StatementOutcome(response)
       IN /\ account' = Apply(statement, response)
          /\ calls' = Append(calls, [inv |-> i, target |-> "statements",
                                     statement |-> statement,
                                     response |-> response, outcome |-> r])
          /\ Goto(i, "wait")
          /\ disableResult' =
               [disableResult EXCEPT ![i] =
                  IF r.kind = "throw" THEN JsonObject(Undef, Undef) ELSE r.value]
          /\ timers' = [timers EXCEPT ![i] = "armed"]
  /\ UNCHANGED <<inputs, authHeader, baseUrl, delayMs, enableResult,
                 requests, handlers>>

\* The warehouse answers the disable statement.
DisableResponse(i) ==
  /\ pc[i] = "disable"
  /\ \E response \in StatementAnswers(network.statements) :
       LET statement == DisableStatement(resolvedParams(i).username.s)
           r == StatementOutcome(response)
       IN /\ account' = Apply(statement, response)
          /\ calls' = Append(calls, [inv |-> i, target |-> "statements",
                                     statement |-> statement,
                                     response |-> response, outcome |-> r])
          /\ IF r.kind = "throw"
             THEN Raise(i, r.error) /\ UNCHANGED <<disableResult, timers>>
             ELSE /\ Goto(i, "wait")
                  /\ disableResult' = [disableResult EXCEPT ![i] = r.value]
                  /\ timers' = [timers EXCEPT ![i] = "armed"]
  /\ UNCHANGED <<inputs, authHeader, baseUrl, delayMs, enableResult,
                 requests, handlers>>

\* await new Promise(resolve => setTimeout(resolve, delayMs)): the timer fires.
DelayElapsed(i) ==
  /\ pc[i] = "wait"
  /\ timers[i] = "armed"
  /\ timers' = [timers EXCEPT ![i] = "fired"]
  /\ Goto(i, "sendEnable")
  /\ UNCHANGED <<inputs, locals, requests, calls, account, handlers>>

\* executeStatement(enableStatement, ...) up to its fetch.
SendEnable(i) ==
  /\ pc[i] = "sendEnable"
  /\ requests' = Append(requests,
       [inv |-> i,
        req |-> StatementRequest(EnableStatement(resolvedParams(i).username.s),
                                 authHeader[i], baseUrl[i])])
  /\ Goto(i, "enable")
  /\ UNCHANGED <<inputs, locals, calls, account, timers, handlers>>

\* EnableResponse with a failed enable call sent once more.
EnableResponseRetry(i) ==
  /\ pc[i] = "enable"
  /\ \E response \in StatementAnswers(network.statements) :
       LET statement == EnableStatement(resolvedParams(i).username.s)
           r == StatementOutcome(response)
       IN /\ account' = Apply(statement, response)
          /\ calls' = Append(calls, [inv |-> i, target |-> "statements",
                                     statement |-> statement,
                                     response |-> response, outcome |-> r])
          /\ IF r.kind = "throw"
             THEN /\ IF Len(calls) < 2 THEN Goto(i, "sendEnable") ELSE Raise(i, r.error)
                  /\ UNCHANGED enableResult
             ELSE /\ Goto(i, "result")
                  /\ enableResult' = [enableResult EXCEPT ![i] = r.value]
  /\ UNCHANGED <<inputs, authHeader, baseUrl, delayMs, disableResult,
                 requests, timers, handlers>>

\* EnableResponse with the failure of the enable call swallowed.
EnableResponseSwallow(i) ==
  /\ pc[i] = "enable"
  /\ \E response \in StatementAnswers(network.statements) :
       LET statement == EnableStatement(resolvedParams(i).username.s)
           r == StatementOutcome(response)
       IN /\ account' = Apply(statement, response)
          /\ calls' = Append(calls, [inv |-> i, target |-> "statements",
                                     statement |-> statement,
                                     response |-> response, outcome |-> r])
          /\ Goto(i, "result")
          /\ enableResult' =
               [enableResult EXCEPT ![i] =
                  IF r.kind = "throw" THEN JsonObject(Undef, Undef) ELSE r.value]
  /\ UNCHANGED <<inputs, authHeader, baseUrl, delayMs, disableResult,
                 requests, timers, handlers>>

\* The warehouse answers the enable statement.
EnableResponse(i) ==
  /\ pc[i] = "enable"
  /\ \E response \in StatementAnswers(network.statements) :
       LET statement == EnableStatement(resolvedParams(i).username.s)
           r == StatementOutcome(response)
       IN /\ account' = Apply(statement, response)
          /\ calls' = Append(calls, [inv |-> i, target |-> "statements",
                                     statement |-> statement,
                                     response |-> response, outcome |-> r])
          /\ IF r.kind = "throw"
             THEN Raise(i, r.error) /\ UNCHANGED enableResult
             ELSE /\ Goto(i, "result")
                  /\ enableResult' = [enableResult EXCEPT ![i] = r.value]
  /\ UNCHANGED <<inputs, authHeader, baseUrl, delayMs, disableResult,
                 requests, timers, handlers>>

\* x.statementHandle || true, on a parsed body that is an object.
HandleOrTrue(json) == Or(json.statementHandle, Bool(TRUE))

\* Result with the two statement handles exchanged.
ResultSwapped(i) ==
  [username |-> resolvedParams(i).username,
   sessionsRevoked |-> Bool(TRUE),
   userDisabled |-> HandleOrTrue(enableResult[i]),
   userReEnabled |-> HandleOrTrue(disableResult[i]),
   revokedAt |-> Now]

\* The result object of invoke.
Result(i) ==
  [username |-> resolvedParams(i).username,
   sessionsRevoked |-> Bool(TRUE),
   userDisabled |-> HandleOrTrue(disableResult[i]),
   userReEnabled |-> HandleOrTrue(enableResult[i]),
   revokedAt |-> Now]

BuildResult(i) ==
  /\ pc[i] = "result"
  /\ IF disableResult[i].json = "null" \/ enableResult[i].json = "null"
     THEN Raise(i, PlainError("TypeError",
            <<"Cannot read properties of null (reading 'statementHandle')">>))
     ELSE /\ pc' = [pc EXCEPT ![i] = "done"]
          /\ outcome' = [outcome EXCEPT ![i] = Return(Result(i))]
  /\ UNCHANGED <<inputs, locals, requests, calls, account, timers, handlers>>

\* -------------------------------------------------------------------- halt
HaltParams(reason, username) == [reason |-> reason, username |-> username]

\* Each field missing, empty or given.
HaltInputs ==
  {HaltParams(reason, username) :
     reason \in {Undef, Str(<<"t">>)},
     username \in {Undef, Str(<<>>), Str(<<"a">>)}}

Unknown == Str(<<"u", "n", "k", "n", "o", "w", "n">>)

\* halt that reports the username it was given, without the default.
haltAsGiven(p) ==
  [username |-> p.username,
   reason |-> Or(p.reason, Unknown),
   haltedAt |-> Now,
   cleanupCompleted |-> Bool(TRUE)]

halt(p) ==
  [username |-> Or(p.username, Unknown),
   reason |-> Or(p.reason, Unknown),
   haltedAt |-> Now,
   cleanupCompleted |-> Bool(TRUE)]

NoHalt == [kind |-> "none"]

\* halt that also abandons the invocations still in flight.
HaltCancels ==
  /\ \E p \in HaltInputs : haltParams' = p /\ haltResult' = Return(halt(p))
  /\ pc' = [i \in Invocations |-> IF pc[i] = "idle" THEN "idle" ELSE "done"]
  /\ UNCHANGED <<inputs, locals, outcome, requests, calls, account, timers,
                 errorParams, errorResult>>

\* The host calls halt: it only builds and returns its result.
Halt ==
  /\ \E p \in HaltInputs : haltParams' = p /\ haltResult' = Return(halt(p))
  /\ UNCHANGED <<pc, inputs, locals, outcome, requests, calls, account, timers,
                 errorParams, errorResult>>

\* ----------------------------------------------------------- error handler
ErrorParams(error) == [error |-> error]

\* An error that did not come out of invoke: new Error('Network timeout').
NetworkTimeout == PlainError("Error", <<"Network timeout">>)

\* What the host hands to the error handler after invocation i failed.
ErrorInputs(i) == {ErrorParams(outcome[i].error), ErrorParams(NetworkTimeout)}

NoError == [kind |-> "none"]

\* The error handler wrapping what it was given, as invoke's catch does.
errorHandlerWrapped(p) == Throw(CatchClassify(p.error))

\* error: async (params) => { const { error } = params; ...; throw error; }
errorHandler(p) == Throw(p.error)

\* The host calls the error handler for an invocation that has failed.
ErrorHandler(i) ==
  /\ pc[i] = "done"
  /\ outcome[i].kind = "throw"
  /\ \E p \in ErrorInputs(i) : errorParams' = p /\ errorResult' = errorHandler(p)
  /\ UNCHANGED <<pc, inputs, locals, outcome, requests, calls, account, timers,
                 haltParams, haltResult>>

\* ----------------------------------------------------------- specification
InitLocals ==
  /\ authHeader = [i \in Invocations |-> <<>>]
  /\ baseUrl = [i \in Invocations |-> <<>>]
  /\ delayMs = [i \in Invocations |-> Ms(0, 1)]
  /\ disableResult = [i \in Invocations |-> NoJson]
  /\ enableResult = [i \in Invocations |-> NoJson]
  /\ outcome = [i \in Invocations |-> Pending]
  /\ requests = <<>>
  /\ calls = <<>>
  /\ account = [u \in Users |-> "enabled"]
  /\ timers = [i \in Invocations |-> "none"]
  /\ haltParams = NoHalt
  /\ haltResult = NoHalt
  /\ errorParams = NoError
  /\ errorResult = NoError

IdleParams == Params(Undef, Undef, Undef)

\* One invocation, its params and context drawn from the input sets.
Init ==
  /\ pc = [i \in Invocations |-> IF i = 1 THEN "start" ELSE "idle"]
  /\ \E p \in ParamsInputs :
       params = [i \in Invocations |-> IF i = 1 THEN p ELSE IdleParams]
  /\ \E c \in ContextInputs :
       context = [i \in Invocations |-> IF i = 1 THEN c ELSE Undef]
  /\ network = [statements |-> "any", token |-> "any"]
  /\ InitLocals

Step(i) ==
  \/ ResolveTemplates(i)
  \/ Validate(i)
  \/ ResolveAuth(i)
  \/ TokenResponse(i)
  \/ ResolveBaseUrl(i)
  \/ ParseDelay(i)
  \/ SendDisable(i)
  \/ DisableResponse(i)
  \/ DelayElapsed(i)
  \/ SendEnable(i)
  \/ EnableResponse(i)
  \/ BuildResult(i)

Next ==
  \/ \E i \in Invocations : Step(i)
  \/ \E i \in Invocations : ErrorHandler(i)
  \/ Halt

Spec == Init /\ [][Next]_vars

\* Every combination of present and absent credentials, for one valid call.
AuthContextInputs ==
  {Context(Environment(Str(<<"u", "/">>), tokenUrl, clientId, Str(<<"r">>), InParams),
           Secrets(bearer, basicUser, basicPass, accessToken, clientSecret)) :
     bearer \in {Undef, Str(<<>>), Str(JwtToken), Str(BearerPrefix \o <<"k">>)},
     basicUser \in {Undef, Str(<<"u">>)},
     basicPass \in {Undef, Str(<<"p">>)},
     accessToken \in {Undef, Str(<<"c">>)},
     clientSecret \in {Undef, Str(<<"z">>)},
     tokenUrl \in {Undef, Str(<<"w">>)},
     clientId \in {Undef, Str(<<"i">>)}}

InitAuth ==
  /\ pc = [i \in Invocations |-> IF i = 1 THEN "start" ELSE "idle"]
  /\ params = [i \in Invocations |->
                 IF i = 1 THEN Params(Str(<<"a">>), Str(<<"2", "s">>), Undef)
                 ELSE IdleParams]
  /\ \E c \in AuthContextInputs :
       context = [i \in Invocations |-> IF i = 1 THEN c ELSE Undef]
  /\ network = [statements |-> "few", token |-> "any"]
  /\ InitLocals

SpecAuth == InitAuth /\ [][Next]_vars

\* One call with a bearer token or with client credentials, or one without
\* a username; the event loop runs a timer that is due and the code after it.
InitHalt ==
  /\ pc = [i \in Invocations |-> IF i = 1 THEN "start" ELSE "idle"]
  /\ \E u \in {Undef, Str(<<"a">>)}, d \in {Undef, Str(<<"2", "s">>)} :
       params = [i \in Invocations |->
                  IF i = 1 THEN Params(u, d, Undef) ELSE IdleParams]
  /\ \E s \in {Secrets(Str(JwtToken), Undef, Undef, Undef, Undef),
                Secrets(Undef, Undef, Undef, Undef, Str(<<"z">>))} :
       context = [i \in Invocations |->
                   IF i = 1
                   THEN Context(Environment(Str(<<"u">>), Str(<<"w">>), Str(<<"i">>),
                                            Undef, Undef), s)
                   ELSE Undef]
  /\ network = [statements |-> "few", token |-> "few"]
  /\ InitLocals

TimerFairness ==
  \A i \in Invocations : WF_vars(DelayElapsed(i)) /\ WF_vars(SendEnable(i))

SpecHalt == InitHalt /\ [][Next]_vars /\ TimerFairness

\* Every shape of params.delay: missing, a number with each unit in either
\* case, with a fraction, without a unit, and strings that are no duration.
WellFormedDelays ==
  {Str(<<"1", "0", "0", "m", "s">>), Str(<<"2", "s">>), Str(<<"1", "m">>),
   Str(<<"1", "h">>), Str(<<"5">>), Str(<<"0">>),
   Str(<<"1", ".", "5", "s">>), Str(<<"2", ".", "5">>),
   Str(<<"0", ".", "5", "m">>), Str(<<"1", "H">>), Str(<<"3", "S">>),
   Str(<<"2", "M", "s">>), Str(<<"0", "7", "M">>)}

MalformedDelays ==
  {Str(<<>>), Str(<<"a", "b", "c">>), Str(<<"1", "0", " ", "s">>),
   Str(<<" ", "5">>), Str(<<"5", " ">>), Str(<<"1", ".">>),
   Str(<<".", "5">>), Str(<<"-", "5">>), Str(<<"5", "x">>),
   Str(<<"1", ".", "5", ".", "2">>), Str(<<"m", "s">>),
   Str(<<"5", "s", "m">>), Str(<<"1", "e", "3">>)}

DurationInputs == {Undef, Null} \cup WellFormedDelays \cup MalformedDelays

\* One call with a bearer token and a delay drawn from DurationInputs, or
\* with client credentials and a malformed delay.
InitDelay ==
  /\ pc = [i \in Invocations |-> IF i = 1 THEN "start" ELSE "idle"]
  /\ \E d \in DurationInputs :
       \E s \in {Secrets(Str(JwtToken), Undef, Undef, Undef, Undef)}
                \cup (IF d = Str(<<"a", "b", "c">>)
                      THEN {Secrets(Undef, Undef, Undef, Undef, Str(<<"z">>))}
                      ELSE {}) :
         /\ params = [i \in Invocations |->
                        IF i = 1 THEN Params(Str(<<"a">>), d, Undef) ELSE IdleParams]
         /\ context = [i \in Invocations |->
                         IF i = 1
                         THEN Context(Environment(Str(<<"u">>), Str(<<"w">>),
                                                  Str(<<"i">>), Undef, Undef), s)
                         ELSE Undef]
  /\ network = [statements |-> "few", token |-> "few"]
  /\ InitLocals

\* parseDuration and executeStatement up to its fetch run in one turn of the
\* event loop, without an await between them.
SyncFairness ==
  \A i \in Invocations : WF_vars(ParseDelay(i)) /\ WF_vars(SendDisable(i))

SpecDelay == InitDelay /\ [][Next]_vars /\ SyncFairness

\* Credentials whose token has no, one, two or three dots, is empty once its
\* prefix is removed, or carries a prefix of its own; basic credentials; an
\* access token; client credentials.
TokenSecretsInputs ==
  {Secrets(Str(t), Undef, Undef, Undef, Undef) :
     t \in {BearerPrefix, <<"k">>, <<"a", ".", "b">>, JwtToken, <<".", ".">>,
            <<"a", ".", "b", ".", "c", ".", "d">>, BearerPrefix \o JwtToken,
            <<"b", "e", "a", "r", "e", "r", " ">> \o JwtToken,
            BearerPrefix \o <<" ", "a", ".", "b">>}}
    \cup {Secrets(Undef, Str(<<"u", ".", "v">>), Str(<<"p", ".", "q">>), Undef, Undef),
          Secrets(Undef, Undef, Undef, Str(<<"c", ".", "d", ".", "e">>), Undef),
          Secrets(Undef, Undef, Undef, Undef, Str(<<"z">>))}

\* One valid call, its credentials drawn from TokenSecretsInputs.
InitToken ==
  /\ pc = [i \in Invocations |-> IF i = 1 THEN "start" ELSE "idle"]
  /\ params = [i \in Invocations |->
                 IF i = 1 THEN Params(Str(<<"a">>), Undef, Undef) ELSE IdleParams]
  /\ \E s \in TokenSecretsInputs :
       context = [i \in Invocations |->
                   IF i = 1
                   THEN Context(Environment(Str(<<"u">>), Str(<<"w">>), Str(<<"i">>),
                                            Undef, Undef), s)
                   ELSE Undef]
  /\ network = [statements |-> "few", token |-> "few"]
  /\ InitLocals

SpecToken == InitToken /\ [][Next]_vars

\* The params and the context of the concurrent invocations: one user, a
\* bearer token, the base URL of the environment.
ConcParams == Params(Str(<<"a">>), Undef, Undef)

ConcContext ==
  Context(Environment(Str(<<"u">>), Undef, Undef, Undef, Undef),
          Secrets(Str(JwtToken), Undef, Undef, Undef, Undef))

\* Every invocation runs, all of them for the same user. Each has resolved
\* its header, base URL and delay, steps that read and write nothing but its
\* own locals, and is about to send its disable statement.
InitConc ==
  /\ pc = [i \in Invocations |-> "sendDisable"]
  /\ params = [i \in Invocations |-> ConcParams]
  /\ context = [i \in Invocations |-> ConcContext]
  /\ network = [statements |-> "three", token |-> "few"]
  /\ authHeader = [i \in Invocations |-> getAuthorizationHeader(ConcContext).value]
  /\ baseUrl = [i \in Invocations |-> getBaseUrl(ConcParams, ConcContext).value]
  /\ delayMs = [i \in Invocations |-> parseDuration(ConcParams.delay).value]
  /\ disableResult = [i \in Invocations |-> NoJson]
  /\ enableResult = [i \in Invocations |-> NoJson]
  /\ outcome = [i \in Invocations |-> Pending]
  /\ requests = <<>>
  /\ calls = <<>>
  /\ account = [u \in Users |-> "enabled"]
  /\ timers = [i \in Invocations |-> "none"]
  /\ haltParams = NoHalt
  /\ haltResult = NoHalt
  /\ errorParams = NoError
  /\ errorResult = NoError

\* invoke from its first statement on: the two statement calls, the wait
\* between them and the result.
NextStatements ==
  \E i \in Invocations :
    \/ SendDisable(i)
    \/ DisableResponse(i)
    \/ DelayElapsed(i)
    \/ SendEnable(i)
    \/ EnableResponse(i)
    \/ BuildResult(i)

SpecConc == InitConc /\ [][NextStatements]_vars

\* ================================================================== claims
\* The statement requests invocation i has sent, in order.
StatementsSent(i) ==
  SelectSeq(requests, LAMBDA r : r.inv = i /\ r.req.target = "statements")

RequestsOf(i) == SelectSeq(requests, LAMBDA r : r.inv = i)

IsPrefix(s, t) == Len(s) <= Len(t) /\ s = SubSeq(t, 1, Len(s))

\* The completed executeStatement calls of invocation i.
StatementCalls(i) ==
  SelectSeq(calls, LAMBDA c : c.inv = i /\ c.target = "statements")

Answered2xx(c) ==
  c.response.net = "ok" /\ c.response.status >= 200 /\ c.response.status < 300

SqlDisable == "ALTER USER ${username} SET DISABLED = TRUE"

SqlEnable == "ALTER USER ${username} SET DISABLED = FALSE"

Classified(error) ==
  \/ error.cls = "RetryableError" /\ error.retryable = "true"
  \/ error.cls = "FatalError" /\ error.retryable = "false"

\* C1: the statement requests of one invocation are a prefix of
\* <disable(username), enable(username)>, each a POST to /api/v2/statements,
\* and the enable is sent only after the disable call was answered 2xx and
\* the delay timer has fired.
C1_StatementSequence ==
  \A i \in Invocations :
    LET sent == StatementsSent(i)
    IN sent # <<>> =>
         LET u == params[i].username.s
             done == StatementCalls(i)
         IN /\ IsPrefix([k \in 1..Len(sent) |-> sent[k].req.body.statement],
                        <<[sql |-> SqlDisable, username |-> u],
                          [sql |-> SqlEnable, username |-> u]>>)
            /\ \A k \in 1..Len(sent) :
                 /\ sent[k].req.method = "POST"
                 /\ sent[k].req.url.path = "/api/v2/statements"
            /\ Len(sent) = 2 =>
                 /\ timers[i] = "fired"
                 /\ Len(done) >= 1
                 /\ done[1].statement.sql = SqlDisable
                 /\ Answered2xx(done[1])

C1_Witness ==
  \E i \in Invocations : Len(StatementsSent(i)) = 2 /\ pc[i] = "done"

\* Invocation i's disable call returned and its enable call then failed.
EnableFailedAfterDisable(i) ==
  LET done == StatementCalls(i)
  IN /\ Len(done) >= 2
     /\ done[1].statement.sql = SqlDisable
     /\ done[1].outcome.kind = "return"
     /\ done[2].statement.sql = SqlEnable
     /\ done[2].outcome.kind = "throw"

BlankUsername(v) == v.t # "string" \/ \A k \in 1..Len(v.s) : IsWs(v.s[k])

\* C3: with a blank username and any context object, invoke makes no fetch
\* call at all and ends with the fatal error 'Invalid or missing username
\* parameter'.
C3_BlankUsernameFatal ==
  \A i \in Invocations :
    (pc[i] # "idle" /\ BlankUsername(params[i].username)) =>
      /\ RequestsOf(i) = <<>>
      /\ pc[i] \in {"start", "validate", "done"}
      /\ (pc[i] = "done" /\ context[i].t = "object") =>
           outcome[i] = Throw([cls |-> "FatalError", retryable |-> "false",
                               message |-> <<"Invalid or missing username parameter">>])

C3_Witness ==
  \E i \in Invocations :
    /\ params[i].username = Str(<<" ", "\t">>)
    /\ context[i].t = "object"
    /\ Truthy(context[i].secrets.BEARER_AUTH_TOKEN)
    /\ pc[i] = "done"
    /\ outcome[i].kind = "throw"

\* C4: every error that leaves invoke carries a boolean retryable flag and
\* is a RetryableError or a FatalError, whatever step raised it.
C4_EveryErrorClassified ==
  \A i \in Invocations :
    outcome[i].kind = "throw" => Classified(outcome[i].error)

Contains(message, fragment) == \E k \in DOMAIN message : message[k] = fragment

IsRetryable(o) ==
  o.kind = "throw" /\ o.error.cls = "RetryableError" /\ o.error.retryable = "true"

IsFatal(o) ==
  o.kind = "throw" /\ o.error.cls = "FatalError" /\ o.error.retryable = "false"

\* C5: each answered statement call has the outcome of the status table:
\* 2xx returns the parsed body (and raises neither error kind), 429 is
\* retryable, 401/403/422 are fatal (422 with the body in the message),
\* >= 500 is retryable, every other status is fatal with status, reason and
\* body in the message.
C5_StatusMapping ==
  \A k \in 1..Len(calls) :
    LET c == calls[k]
        st == c.response.status
        o == c.outcome
    IN (c.target = "statements" /\ c.response.net = "ok") =>
         CASE st >= 200 /\ st <= 299 ->
                /\ ~IsRetryable(o) /\ ~IsFatal(o)
                /\ c.response.json.json # "invalid" => o = Return(c.response.json)
           [] st = 429 -> IsRetryable(o)
           [] st = 401 \/ st = 403 -> IsFatal(o)
           [] st = 422 -> IsFatal(o) /\ Contains(o.error.message, c.response.text)
           [] st >= 500 -> IsRetryable(o)
           [] OTHER ->
                /\ IsFatal(o)
                /\ Contains(o.error.message, ToString(st))
                /\ Contains(o.error.message, c.response.statusText)
                /\ Contains(o.error.message, c.response.text)

C5_Witness ==
  \E i \in Invocations :
    LET done == StatementCalls(i)
    IN /\ Len(done) = 2
       /\ Answered2xx(done[1])
       /\ done[1].response.status = 299
       /\ done[1].outcome.kind = "return"
       /\ done[2].response.net = "ok"
       /\ done[2].response.status = 500
       /\ IsRetryable(done[2].outcome)

\* The statement handle of a parsed body, or true when it carries none.
HandleOf(json) ==
  IF json.statementHandle = Undef THEN Bool(TRUE) ELSE json.statementHandle

\* C6: a result is returned only after both statement calls were answered
\* 2xx; it names the input username, sessionsRevoked is true and
\* userDisabled / userReEnabled are the handles of the disable / enable
\* answers (true when an answer carries no handle).
C6_ResultFields ==
  \A i \in Invocations :
    outcome[i].kind = "return" =>
      LET done == StatementCalls(i)
          v == outcome[i].value
      IN /\ Len(done) = 2
         /\ done[1].statement.sql = SqlDisable /\ Answered2xx(done[1])
         /\ done[2].statement.sql = SqlEnable /\ Answered2xx(done[2])
         /\ v.username = params[i].username
         /\ v.sessionsRevoked = Bool(TRUE)
         /\ v.userDisabled = HandleOf(done[1].response.json)
         /\ v.userReEnabled = HandleOf(done[2].response.json)
         /\ v.revokedAt.t = "string"

C6_Witness ==
  \E i \in Invocations :
    /\ outcome[i].kind = "return"
    /\ outcome[i].value.userDisabled = Str(<<"h", "1">>)
    /\ outcome[i].value.userReEnabled = Str(<<"h", "2">>)

C6_WitnessNoHandle ==
  \E i \in Invocations :
    /\ outcome[i].kind = "return"
    /\ outcome[i].value.userDisabled = Bool(TRUE)

\* A credential that is present.
Has(v) == v.t = "string" /\ v.s # <<>>

\* The first credential source present, in the resolver's order.
FirstSource(ctx) ==
  IF Has(ctx.secrets.BEARER_AUTH_TOKEN) THEN "bearer"
  ELSE IF Has(ctx.secrets.BASIC_USERNAME) /\ Has(ctx.secrets.BASIC_PASSWORD) THEN "basic"
  ELSE IF Has(ctx.secrets.OAUTH2_AUTHORIZATION_CODE_ACCESS_TOKEN) THEN "code"
  ELSE IF Has(ctx.secrets.OAUTH2_CLIENT_CREDENTIALS_CLIENT_SECRET) THEN "client"
  ELSE "none"

\* header is `Bearer <token>`, the token kept as it is when already prefixed.
IsBearerOf(header, token) ==
  /\ StartsWith(header, <<"B", "e", "a", "r", "e", "r", " ">>)
  /\ IF StartsWith(token, <<"B", "e", "a", "r", "e", "r", " ">>)
     THEN header = token
     ELSE header = <<"B", "e", "a", "r", "e", "r", " ">> \o token

TokenRequests(i) ==
  SelectSeq(requests, LAMBDA r : r.inv = i /\ r.req.target = "token")

TokenCalls(i) == SelectSeq(calls, LAMBDA c : c.inv = i /\ c.target = "token")

\* Invocation i has called the auth resolver (its username was valid).
PastAuth(i) ==
  /\ pc[i] \notin {"idle", "start", "validate", "auth"}
  /\ context[i].t = "object"
  /\ ~BlankUsername(params[i].username)

\* C7: once the resolver has run, the header is the one of the first source
\* present in the order bearer, basic, authorization-code token, client
\* credentials; the token endpoint is called only when none of the first
\* three is present.
C7_AuthPrecedence ==
  \A i \in Invocations :
    PastAuth(i) =>
      LET source == FirstSource(context[i])
          secrets == context[i].secrets
          env == context[i].environment
          h == authHeader[i]
      IN /\ TokenRequests(i) # <<>> => source = "client"
         /\ CASE source = "bearer" -> IsBearerOf(h, secrets.BEARER_AUTH_TOKEN.s)
              [] source = "basic" ->
                   /\ StartsWith(h, <<"B", "a", "s", "i", "c", " ">>)
                   /\ h = BasicPrefix \o Base64(secrets.BASIC_USERNAME.s \o <<":">>
                                                  \o secrets.BASIC_PASSWORD.s)
              [] source = "code" ->
                   IsBearerOf(h, secrets.OAUTH2_AUTHORIZATION_CODE_ACCESS_TOKEN.s)
              [] source = "client" ->
                   /\ Len(TokenRequests(i)) =
                        (IF /\ Has(env.OAUTH2_CLIENT_CREDENTIALS_TOKEN_URL)
                            /\ Has(env.OAUTH2_CLIENT_CREDENTIALS_CLIENT_ID)
                         THEN 1 ELSE 0)
                   /\ h # <<>> =>
                        /\ Len(TokenCalls(i)) = 1
                        /\ Answered2xx(TokenCalls(i)[1])
                        /\ h = BearerPrefix \o TokenCalls(i)[1].response.json.access_token.s
              [] OTHER -> h = <<>> /\ pc[i] = "done"

C7_Witness ==
  \E i \in Invocations :
    /\ PastAuth(i)
    /\ Has(context[i].secrets.BEARER_AUTH_TOKEN)
    /\ Has(context[i].secrets.BASIC_USERNAME)
    /\ Has(context[i].secrets.BASIC_PASSWORD)
    /\ Has(context[i].secrets.OAUTH2_CLIENT_CREDENTIALS_CLIENT_SECRET)
    /\ authHeader[i] = BearerPrefix \o JwtToken
    /\ Len(StatementsSent(i)) = 2

C7_WitnessToken ==
  \E i \in Invocations :
    /\ PastAuth(i)
    /\ FirstSource(context[i]) = "client"
    /\ Len(TokenCalls(i)) = 1
    /\ authHeader[i] = BearerPrefix \o <<"n">>

\* The token endpoint's answer is not a 2xx carrying an access token.
BadTokenAnswer(c) ==
  \/ ~Answered2xx(c)
  \/ c.response.json.json # "object"
  \/ ~Has(c.response.json.access_token)

\* Auth resolution cannot produce a header for invocation i.
AuthCannotResolve(i) ==
  /\ context[i].t = "object"
  /\ \/ FirstSource(context[i]) = "none"
     \/ /\ FirstSource(context[i]) = "client"
        /\ \/ ~Has(context[i].environment.OAUTH2_CLIENT_CREDENTIALS_TOKEN_URL)
           \/ ~Has(context[i].environment.OAUTH2_CLIENT_CREDENTIALS_CLIENT_ID)
     \/ \E k \in 1..Len(TokenCalls(i)) : BadTokenAnswer(TokenCalls(i)[k])

\* C8: with a valid username, when auth resolution cannot produce a header
\* invoke sends no statement request and, once past the resolver, has ended
\* by raising an error.
C8_NoAuthNoStatement ==
  \A i \in Invocations :
    (pc[i] # "idle" /\ ~BlankUsername(params[i].username) /\ AuthCannotResolve(i)) =>
      /\ StatementsSent(i) = <<>>
      /\ pc[i] \in {"start", "validate", "auth", "token", "done"}
      /\ pc[i] = "done" => outcome[i].kind = "throw"

C8_Witness ==
  \E i \in Invocations :
    /\ ~BlankUsername(params[i].username)
    /\ Len(TokenCalls(i)) = 1
    /\ Answered2xx(TokenCalls(i)[1])
    /\ TokenCalls(i)[1].response.json.json = "object"
    /\ ~Has(TokenCalls(i)[1].response.json.access_token)
    /\ pc[i] = "done"
    /\ outcome[i].kind = "throw"

C8_WitnessNone ==
  \E i \in Invocations :
    /\ ~BlankUsername(params[i].username)
    /\ context[i].t = "object"
    /\ FirstSource(context[i]) = "none"
    /\ pc[i] = "done"

\* The user-agent constant the tests import from @sgnl-actions/utils.
SGNL_USER_AGENT == "SGNL_USER_AGENT"

\* C9: every statement request carries a User-Agent header equal to
\* SGNL_USER_AGENT.
C9_UserAgentHeader ==
  \A k \in 1..Len(requests) :
    requests[k].req.target = "statements" =>
      /\ "User-Agent" \in DOMAIN requests[k].req.headers
      /\ requests[k].req.headers["User-Agent"] = SGNL_USER_AGENT

\* C10: a call of halt changes nothing but its own return value (no request,
\* no statement, no change to any invocation or to the warehouse), and an
\* invocation that is waiting between its disable and its enable when halt
\* has been called still sends its enable statement.
C10_HaltHasNoEffect ==
  /\ [][<<haltParams, haltResult>>' # <<haltParams, haltResult>> =>
          UNCHANGED <<pc, params, context, network, authHeader, baseUrl, delayMs,
                      disableResult, enableResult, outcome, requests, calls,
                      account, timers, errorParams, errorResult>>]_vars
  /\ \A i \in Invocations :
       (pc[i] = "wait" /\ haltResult # NoHalt) ~> (Len(StatementsSent(i)) = 2)

C10_Witness ==
  \E i \in Invocations :
    /\ pc[i] = "wait"
    /\ haltResult # NoHalt
    /\ Len(StatementsSent(i)) = 1
    /\ account[params[i].username.s] = "disabled"

\* C11: every call of halt returns an object (it never raises): its username
\* is the params' username when one is given and 'unknown' otherwise, its
\* reason is the params' reason when one is given and 'unknown' otherwise, its
\* haltedAt is set and its cleanupCompleted is true, whatever the invocations
\* have done to the account.
C11_HaltResult ==
  haltResult # NoHalt =>
    /\ haltResult.kind = "return"
    /\ haltResult.value.username =
         (IF Has(haltParams.username) THEN haltParams.username
          ELSE Str(<<"u", "n", "k", "n", "o", "w", "n">>))
    /\ haltResult.value.reason =
         (IF Has(haltParams.reason) THEN haltParams.reason
          ELSE Str(<<"u", "n", "k", "n", "o", "w", "n">>))
    /\ Has(haltResult.value.haltedAt)
    /\ haltResult.value.cleanupCompleted = Bool(TRUE)

\* halt called without a username after an invocation left its user disabled.
C11_Witness ==
  \E i \in Invocations :
    /\ pc[i] = "done"
    /\ outcome[i].kind = "throw"
    /\ Len(StatementCalls(i)) = 2
    /\ account[params[i].username.s] = "disabled"
    /\ haltResult # NoHalt
    /\ ~Has(haltParams.username)
    /\ Has(haltParams.reason)
    /\ haltResult.value.username = Unknown

C12_WitnessUnclassified ==
  /\ errorResult # NoError
  /\ errorParams.error.retryable = "undefined"
  /\ errorResult.error.cls \notin {"RetryableError", "FatalError"}

\* Two numbers of milliseconds, as fractions, are the same number.
SameMs(a, b) == a.num * b.den = b.num * a.den

\* The milliseconds of each well-formed delay: value*1 for ms or no unit,
\* value*1000 for s, value*60000 for m, value*3600000 for h.
DurationTable ==
  {<<Str(<<"1", "0", "0", "m", "s">>), Ms(100, 1)>>,
   <<Str(<<"2", "s">>), Ms(2000, 1)>>,
   <<Str(<<"1", "m">>), Ms(60000, 1)>>,
   <<Str(<<"1", "h">>), Ms(3600000, 1)>>,
   <<Str(<<"5">>), Ms(5, 1)>>,
   <<Str(<<"0">>), Ms(0, 1)>>,
   <<Str(<<"1", ".", "5", "s">>), Ms(1500, 1)>>,
   <<Str(<<"2", ".", "5">>), Ms(5, 2)>>,
   <<Str(<<"0", ".", "5", "m">>), Ms(30000, 1)>>,
   <<Str(<<"1", "H">>), Ms(3600000, 1)>>,
   <<Str(<<"3", "S">>), Ms(3000, 1)>>,
   <<Str(<<"2", "M", "s">>), Ms(2, 1)>>,
   <<Str(<<"0", "7", "M">>), Ms(420000, 1)>>}

ExpectedMs(delay) ==
  IF \E e \in DurationTable : e[1] = delay
  THEN (CHOOSE e \in DurationTable : e[1] = delay)[2]
  ELSE Ms(100, 1)

AfterDelay == {"sendDisable", "disable", "wait", "sendEnable", "enable", "result"}

\* C13: parsing the delay never fails: an invocation that has come to its delay
\* goes on to the disable statement with a delay of value*1 (ms or no unit),
\* value*1000 (s), value*60000 (m) or value*3600000 (h) milliseconds, the unit
\* in either case, and of 100 milliseconds when the delay is missing, empty or
\* malformed; it never ends there, and it does send its disable statement.
C13_DurationNeverFails ==
  /\ [](\A i \in Invocations :
          pc[i] \in AfterDelay => SameMs(delayMs[i], ExpectedMs(params[i].delay)))
  /\ [][\A i \in Invocations :
          pc[i] = "delay" => pc'[i] \in {"delay", "sendDisable"}]_vars
  /\ \A i \in Invocations : (pc[i] = "delay") ~> (Len(StatementsSent(i)) >= 1)

\* A malformed delay, and the disable statement sent with the default delay.
C13_Witness ==
  \E i \in Invocations :
    /\ params[i].delay \in MalformedDelays
    /\ params[i].delay # Str(<<>>)
    /\ Len(StatementsSent(i)) >= 1
    /\ delayMs[i] = Ms(100, 1)

\* A delay with a fraction and a unit: "1.5s" is 1500 milliseconds.
C13_WitnessFraction ==
  \E i \in Invocations :
    /\ params[i].delay = Str(<<"1", ".", "5", "s">>)
    /\ pc[i] = "wait"
    /\ SameMs(delayMs[i], Ms(1500, 1))

\* The number of segments a string splits into on '.'.
DotSegments(s) == Len(SelectSeq(s, LAMBDA c : c = ".")) + 1

\* A header with a leading 'Bearer' and the white space after it removed.
WithoutBearer(header) ==
  IF IsPrefix(<<"B", "e", "a", "r", "e", "r", " ">>, header)
  THEN LET k == CHOOSE k \in 7..Len(header) :
                  /\ \A j \in 7..k : header[j] = " "
                  /\ (k = Len(header) \/ header[k + 1] # " ")
       IN SubSeq(header, k + 1, Len(header))
  ELSE header

C14_WitnessJwt ==
  \E k \in 1..Len(requests) :
    /\ requests[k].req.target = "statements"
    /\ requests[k].req.headers["Authorization"] =
         <<"B", "e", "a", "r", "e", "r", " ", "h", ".", "p", ".", "s">>
    /\ requests[k].req.headers["X-Snowflake-Authorization-Token-Type"] = "KEYPAIR_JWT"

\* The header 'Bearer ' alone: the empty token was sent as OAUTH.
C14_WitnessEmpty ==
  \E k \in 1..Len(requests) :
    /\ requests[k].req.target = "statements"
    /\ requests[k].req.headers["Authorization"] = <<"B", "e", "a", "r", "e", "r", " ">>
    /\ requests[k].req.headers["X-Snowflake-Authorization-Token-Type"] = "OAUTH"

\* One of invocation i's statement calls was answered 429 or 5xx.
TransientAnswer(i) ==
  \E k \in 1..Len(StatementCalls(i)) :
    LET r == StatementCalls(i)[k].response
    IN r.net = "ok" /\ (r.status = 429 \/ r.status >= 500)

RetryableIff(i) ==
  outcome[i].kind = "throw" =>
    /\ (outcome[i].error.retryable = "true") <=> TransientAnswer(i)
    /\ ~TransientAnswer(i) =>
         outcome[i].error.cls = "FatalError" /\ outcome[i].error.retryable = "false"

\* C15: an error that leaves invoke is retryable exactly when one of the
\* invocation's statement calls was answered 429 or with a status of 500 or
\* more, and every other error that leaves invoke is a fatal one.
C15_RetryableIff == \A i \in Invocations : RetryableIff(i)

\* The same, for the invocations that were given a context object: every
\* error of theirs is raised inside invoke's try block.
C15_RetryableIffInsideTry ==
  \A i \in Invocations : context[i].t = "object" => RetryableIff(i)

\* Failures that are not the warehouse's 429 or 5xx, each ending as fatal: a
\* 429 or 5xx of the token endpoint, fetch rejecting, no base URL, a 2xx
\* answer whose body is not JSON.
C15_WitnessTokenEndpoint ==
  \E i \in Invocations :
    /\ IsFatal(outcome[i])
    /\ \E k \in 1..Len(TokenCalls(i)) :
         LET r == TokenCalls(i)[k].response
         IN r.net = "ok" /\ r.status \in {429, 500}

C15_WitnessFetchRejects ==
  \E i \in Invocations :
    /\ IsFatal(outcome[i])
    /\ Len(StatementCalls(i)) = 2
    /\ StatementCalls(i)[2].response = Rejected

C15_WitnessNoBaseUrl ==
  \E i \in Invocations :
    /\ IsFatal(outcome[i])
    /\ PastAuth(i)
    /\ ~Has(params[i].address)
    /\ ~Has(context[i].environment.ADDRESS)
    /\ Len(StatementsSent(i)) = 0

C15_WitnessNotJson ==
  \E i \in Invocations :
    /\ IsFatal(outcome[i])
    /\ Len(StatementCalls(i)) >= 1
    /\ Answered2xx(StatementCalls(i)[1])
    /\ StatementCalls(i)[1].response.json = JsonInvalid

C15_WitnessRetryable ==
  \E i \in Invocations :
    /\ IsRetryable(outcome[i])
    /\ Len(StatementCalls(i)) = 2
    /\ StatementCalls(i)[2].response.net = "ok"
    /\ StatementCalls(i)[2].response.status = 429

\* The statements the warehouse has applied to a user, in order.
AppliedTo(user) ==
  SelectSeq(calls, LAMBDA c : /\ c.target = "statements"
                               /\ c.statement.username = user
                               /\ Answered2xx(c))

\* Invocation i did not send its enable statement, or the call of it failed.
EnableMissingOrFailed(i) ==
  \/ Len(StatementsSent(i)) < 2
  \/ Len(StatementCalls(i)) = 2 /\ StatementCalls(i)[2].outcome.kind = "throw"

\* C16: invocations running concurrently for one user, their statement calls
\* interleaved in every order: when every one of them has returned a result,
\* the last statement applied to the user is an enable and the account is
\* enabled; and when all have ended with the account disabled, some
\* invocation did not send its enable statement or its enable call failed.
C16_ConcurrentInvocations ==
  \A user \in Users :
    LET running == {i \in Invocations :
                      pc[i] # "idle" /\ params[i].username = Str(user)}
    IN running # {} =>
         /\ (\A i \in running : outcome[i].kind = "return") =>
              /\ AppliedTo(user) # <<>>
              /\ AppliedTo(user)[Len(AppliedTo(user))].statement = EnableStatement(user)
              /\ account[user] = "enabled"
         /\ ((\A i \in running : pc[i] = "done") /\ account[user] = "disabled") =>
              \E i \in running : EnableMissingOrFailed(i)

\* Every invocation returned a result, after all of them had disabled the
\* user before any of them enabled the user again.
C16_Witness ==
  /\ \A i \in Invocations : outcome[i].kind = "return"
  /\ Len(calls) = 2 * NumInvocations
  /\ \A k \in 1..NumInvocations : calls[k].statement.sql = SqlDisable
  /\ \A i \in Invocations : params[i].username = Str(<<"a">>)
  /\ account[<<"a">>] = "enabled"

\* All invocations have ended and the user is disabled: the invocation whose
\* disable was applied last failed to enable the user.
C16_WitnessDisabled ==
  /\ \A i \in Invocations : pc[i] = "done"
  /\ account[<<"a">>] = "disabled"
  /\ \E i \in Invocations : outcome[i].kind = "return"
  /\ \E i \in Invocations : Len(StatementsSent(i)) = 2 /\ IsRetryable(outcome[i])

====
